---- MODULE Spec2Model ----
(***************************************************************************)
(* Model of swiper: business-day arithmetic (business_days.py), reporting  *)
(* period resolution (reporting.py), the attendance store (storage.py) and *)
(* compliance / risk scoring (compliance.py).                              *)
(*                                                                         *)
(* A calendar date is modelled by its day offset from Monday 2025-12-22,   *)
(* so date subtraction, "+ timedelta(days=1)" and comparison are integer   *)
(* arithmetic and date.weekday() (Monday = 0 .. Sunday = 6) is d % 7.      *)
(* The window of dates runs over the 2025/2026 year boundary.              *)
(***************************************************************************)
EXTENDS Integers, Sequences, FiniteSets, TLC

VARIABLES exclusion_days, periods, files, malformed, tmp_files, call, ret

vars == <<exclusion_days, periods, files, malformed, tmp_files, call, ret>>

\* the data directory: the year files attendance_YYYY.json (files: year ->
\* mapping of the JSON object; malformed: the years whose file is not
\* parseable JSON) and the temporary files attendance_YYYY.json.tmp
disk == <<files, malformed, tmp_files>>

(***************************************************************************)
(* Bounds of the model.                                                    *)
(***************************************************************************)
\* last day offset of the date window (0 = Mon 2025-12-22)
MaxDay == 13
\* largest number of configured exclusion days
MaxExcl == 2
\* largest count handed to the risk classifier
MaxCount == 7

Dates == 0..MaxDay

ExclusionSets == {S \in SUBSET Dates : Cardinality(S) <= MaxExcl}

(***************************************************************************)
(* Python helpers.                                                         *)
(***************************************************************************)
\* date.weekday(): Monday = 0 .. Sunday = 6
weekday(d) == d % 7

Min(a, b) == IF a <= b THEN a ELSE b
Max(a, b) == IF a >= b THEN a ELSE b

SetMin(S) == CHOOSE x \in S : \A y \in S : x <= y

\* sorted(list) of distinct dates: ascending order
RECURSIVE sorted(_)
sorted(S) == IF S = {} THEN <<>>
             ELSE <<SetMin(S)>> \o sorted(S \ {SetMin(S)})

Range(s) == {s[i] : i \in DOMAIN s}

Ok(v) == [kind |-> "ok", value |-> v]
Raise(e) == [kind |-> e, value |-> "none"]
NoCall == [op |-> "none"]

(***************************************************************************)
(* BusinessDayCalculator (business_days.py)                                *)
(***************************************************************************)
is_weekend(check_date) == weekday(check_date) \in {5, 6}

is_exclusion_day(check_date) == check_date \in exclusion_days

is_workday(check_date) == ~is_weekend(check_date) /\ ~is_exclusion_day(check_date)

\* mutant: the weekend filter is dropped
get_exclusions_in_range_noweekend(start_date, end_date) ==
    sorted({d \in exclusion_days : start_date <= d /\ d <= end_date})

get_exclusions_in_range(start_date, end_date) ==
    sorted({d \in exclusion_days :
              start_date <= d /\ d <= end_date /\ ~is_weekend(d)})

\* mutant: the remainder scan starts one weekday late
count_workdays_shift(start_date, end_date) ==
    LET total_days == (end_date - start_date) + 1
        start_weekday == weekday(start_date)
        complete_weeks == total_days \div 7
        remaining_days == total_days % 7
        weekend_days == complete_weeks * 2
            + Cardinality({i \in 0..(remaining_days - 1) :
                             (start_weekday + i + 1) % 7 \in {5, 6}})
        exclusion_count == Len(get_exclusions_in_range(start_date, end_date))
    IN  total_days - weekend_days - exclusion_count

\* mutant: the range is taken exclusive of end_date (the "+ 1" is lost)
count_workdays_exclusive(start_date, end_date) ==
    LET total_days == (end_date - start_date)
        start_weekday == weekday(start_date)
        complete_weeks == total_days \div 7
        remaining_days == total_days % 7
        weekend_days == complete_weeks * 2
            + Cardinality({i \in 0..(remaining_days - 1) :
                             (start_weekday + i) % 7 \in {5, 6}})
        exclusion_count == Len(get_exclusions_in_range(start_date, end_date - 1))
    IN  total_days - weekend_days - exclusion_count

count_workdays(start_date, end_date) ==
    LET total_days == (end_date - start_date) + 1
        start_weekday == weekday(start_date)
        complete_weeks == total_days \div 7
        remaining_days == total_days % 7
        weekend_days == complete_weeks * 2
            + Cardinality({i \in 0..(remaining_days - 1) :
                             (start_weekday + i) % 7 \in {5, 6}})
        exclusion_count == Len(get_exclusions_in_range(start_date, end_date))
    IN  total_days - weekend_days - exclusion_count

(***************************************************************************)
(* Specification of the business-day calculator: the exclusion set is      *)
(* fixed at construction, every call is a query.  The queries change no    *)
(* state, so a behaviour makes one query of the constructed calculator:    *)
(* the set of reachable (configuration, call, result) triples is the same  *)
(* as with any sequence of queries.                                        *)
(***************************************************************************)
InitBD ==
    /\ exclusion_days \in ExclusionSets
    /\ periods = <<>>
    /\ files = <<>>
    /\ malformed = {}
    /\ tmp_files = <<>>
    /\ call = NoCall
    /\ ret = Ok("none")

Call_count_workdays ==
    \E s \in Dates, e \in Dates :
        /\ call = NoCall
        /\ call' = [op |-> "count_workdays", start_date |-> s, end_date |-> e]
        /\ ret' = Ok(count_workdays(s, e))
        /\ UNCHANGED <<exclusion_days, periods, disk>>

Call_get_exclusions_in_range ==
    \E s \in Dates, e \in Dates :
        /\ call = NoCall
        /\ call' = [op |-> "get_exclusions_in_range", start_date |-> s, end_date |-> e]
        /\ ret' = Ok(get_exclusions_in_range(s, e))
        /\ UNCHANGED <<exclusion_days, periods, disk>>

NextBD == Call_count_workdays \/ Call_get_exclusions_in_range

SpecBD == InitBD /\ [][NextBD]_vars

(***************************************************************************)
(* ComplianceChecker._calculate_risk_level (compliance.py)                 *)
(***************************************************************************)
RiskLevels == {"impossible", "critical", "at-risk", "possible", "achieved"}

\* mutant: a requirement equal to the workdays left is called impossible
calculate_risk_level_ge(remaining_required, remaining_workdays, is_compliant) ==
    IF is_compliant THEN "achieved"
    ELSE IF remaining_required >= remaining_workdays THEN "impossible"
    ELSE LET buffer_days == remaining_workdays - remaining_required
         IN  IF buffer_days < 5 THEN "at-risk"
             ELSE "possible"

\* mutant: the at-risk threshold is off by one (buffer_days <= 5)
calculate_risk_level_le5(remaining_required, remaining_workdays, is_compliant) ==
    IF is_compliant THEN "achieved"
    ELSE IF remaining_required > remaining_workdays THEN "impossible"
    ELSE LET buffer_days == remaining_workdays - remaining_required
         IN  IF buffer_days = 0 THEN "critical"
             ELSE IF buffer_days <= 5 THEN "at-risk"
             ELSE "possible"

calculate_risk_level(remaining_required, remaining_workdays, is_compliant) ==
    IF is_compliant THEN "achieved"
    ELSE IF remaining_required > remaining_workdays THEN "impossible"
    ELSE LET buffer_days == remaining_workdays - remaining_required
         IN  IF buffer_days = 0 THEN "critical"
             ELSE IF buffer_days < 5 THEN "at-risk"
             ELSE "possible"

(***************************************************************************)
(* Specification of the risk classifier, a pure function of its three      *)
(* arguments.                                                              *)
(***************************************************************************)
InitRisk ==
    /\ exclusion_days = {}
    /\ periods = <<>>
    /\ files = <<>>
    /\ malformed = {}
    /\ tmp_files = <<>>
    /\ call = NoCall
    /\ ret = Ok("none")

Call_calculate_risk_level ==
    \E rr \in 0..MaxCount, rw \in 0..MaxCount, ic \in BOOLEAN :
        /\ call = NoCall
        /\ call' = [op |-> "_calculate_risk_level", remaining_required |-> rr,
                    remaining_workdays |-> rw, is_compliant |-> ic]
        /\ ret' = Ok(calculate_risk_level(rr, rw, ic))
        /\ UNCHANGED <<exclusion_days, periods, disk>>

NextRisk == Call_calculate_risk_level

SpecRisk == InitRisk /\ [][NextRisk]_vars

(***************************************************************************)
(* Configuration (config.py): every loaded period carries the policy's     *)
(* baseline, an empty exclusion list and effective = baseline; end_date is *)
(* never before start_date and period_number is positive.                  *)
(***************************************************************************)
\* largest policy.required_days_per_period
MaxBaseline == 2
\* largest number of configured reporting periods
MaxPeriods == 2

\* holidays of the configured calendar: Thu 2025-12-25, Sat 2025-12-27,
\* Thu 2026-01-01
ExclusionCandidates == {3, 5, 10}

ConfiguredExclusions ==
    {S \in SUBSET ExclusionCandidates : Cardinality(S) <= MaxExcl}

\* configured (start_date, end_date) pairs: the whole window and two
\* overlapping periods inside it, the second over the year boundary
PeriodRanges == {<<0, MaxDay>>, <<2, 8>>, <<7, 11>>}

load_reporting_period(n, range, required_days_per_period) ==
    [period_number |-> n,
     start_date |-> range[1],
     end_date |-> range[2],
     report_date |-> range[2] + 1,
     baseline_required_days |-> required_days_per_period,
     exclusion_days |-> <<>>,
     effective_required_days |-> required_days_per_period]

\* the period lists the configuration can load with baseline b
PeriodLists(b) ==
    UNION {{[i \in 1..n |-> load_reporting_period(i, rs[i], b)] :
               rs \in [1..n -> PeriodRanges]} : n \in 0..MaxPeriods}

(***************************************************************************)
(* ReportingPeriodCalculator (reporting.py)                                *)
(***************************************************************************)
MatchingIndexes(check_date) ==
    {i \in 1..Len(periods) :
        periods[i].start_date <= check_date /\ check_date <= periods[i].end_date}

\* mutant: the last matching period wins
get_period_for_date_last(check_date) ==
    IF MatchingIndexes(check_date) = {} THEN Raise("ValidationError")
    ELSE LET i == CHOOSE k \in MatchingIndexes(check_date) :
                     \A j \in MatchingIndexes(check_date) : k >= j
         IN  Ok(periods[i])

get_period_for_date(check_date) ==
    IF MatchingIndexes(check_date) = {} THEN Raise("ValidationError")
    ELSE Ok(periods[SetMin(MatchingIndexes(check_date))])

\* the matching_periods list after the loop has visited the first n periods
RECURSIVE matching_periods(_, _)
matching_periods(n, check_date) ==
    IF n = 0 THEN <<>>
    ELSE LET rest == matching_periods(n - 1, check_date)
             period == periods[n]
         IN  IF period.start_date <= check_date /\ check_date <= period.end_date
             THEN Append(rest, period)
             ELSE rest

\* mutant: the loop stops at the first match
get_periods_for_date_first(check_date) ==
    IF MatchingIndexes(check_date) = {} THEN Ok(<<>>)
    ELSE Ok(<<periods[SetMin(MatchingIndexes(check_date))]>>)

get_periods_for_date(check_date) ==
    Ok(matching_periods(Len(periods), check_date))

\* mutant: the floor at 0 is missing
calculate_effective_required_days_nofloor(period) ==
    period.baseline_required_days
        - Len(get_exclusions_in_range(period.start_date, period.end_date))

calculate_effective_required_days(period) ==
    LET exclusions == get_exclusions_in_range(period.start_date, period.end_date)
        effective == period.baseline_required_days - Len(exclusions)
    IN  Max(0, effective)

\* mutant: effective_required_days is copied from the input period
enrich_period_with_exclusions_copy(period) ==
    [period_number |-> period.period_number,
     start_date |-> period.start_date,
     end_date |-> period.end_date,
     report_date |-> period.report_date,
     baseline_required_days |-> period.baseline_required_days,
     exclusion_days |-> get_exclusions_in_range(period.start_date, period.end_date),
     effective_required_days |-> period.effective_required_days]

enrich_period_with_exclusions(period) ==
    LET exclusions == get_exclusions_in_range(period.start_date, period.end_date)
        effective_required == calculate_effective_required_days(period)
    IN  [period_number |-> period.period_number,
         start_date |-> period.start_date,
         end_date |-> period.end_date,
         report_date |-> period.report_date,
         baseline_required_days |-> period.baseline_required_days,
         exclusion_days |-> exclusions,
         effective_required_days |-> effective_required]

(***************************************************************************)
(* Specification of the period calculator: the period list and the         *)
(* exclusion set are fixed at construction; a behaviour makes one query.   *)
(***************************************************************************)
InitPeriods ==
    /\ exclusion_days \in ConfiguredExclusions
    /\ \E b \in 1..MaxBaseline : periods \in PeriodLists(b)
    /\ files = <<>>
    /\ malformed = {}
    /\ tmp_files = <<>>
    /\ call = NoCall
    /\ ret = Ok("none")

Call_get_period_for_date ==
    \E d \in Dates :
        /\ call = NoCall
        /\ call' = [op |-> "get_period_for_date", check_date |-> d]
        /\ ret' = get_period_for_date(d)
        /\ UNCHANGED <<exclusion_days, periods, disk>>

Call_calculate_effective_required_days ==
    \E i \in 1..Len(periods) :
        /\ call = NoCall
        /\ call' = [op |-> "calculate_effective_required_days", period |-> periods[i]]
        /\ ret' = Ok(calculate_effective_required_days(periods[i]))
        /\ UNCHANGED <<exclusion_days, periods, disk>>

Call_get_periods_for_date ==
    \E d \in Dates :
        /\ call = NoCall
        /\ call' = [op |-> "get_periods_for_date", check_date |-> d]
        /\ ret' = get_periods_for_date(d)
        /\ UNCHANGED <<exclusion_days, periods, disk>>

Call_enrich_period_with_exclusions ==
    \E i \in 1..Len(periods) :
        /\ call = NoCall
        /\ call' = [op |-> "enrich_period_with_exclusions", period |-> periods[i],
                    index |-> i]
        /\ ret' = Ok(enrich_period_with_exclusions(periods[i]))
        /\ UNCHANGED <<exclusion_days, periods, disk>>

NextPeriods ==
    \/ Call_get_period_for_date
    \/ Call_calculate_effective_required_days
    \/ Call_get_periods_for_date
    \/ Call_enrich_period_with_exclusions

SpecPeriods == InitPeriods /\ [][NextPeriods]_vars

(***************************************************************************)
(* AttendanceStore (storage.py).  files maps the year of every existing    *)
(* attendance_YYYY.json to its content, a mapping from date strings to     *)
(* status values.  A date string is modelled by the triple <<Y, M, D>>     *)
(* that date.isoformat() prints.                                           *)
(***************************************************************************)
\* date.isoformat() over the window that starts on 2025-12-22
isoformat(d) == IF d <= 9 THEN <<2025, 12, 22 + d>> ELSE <<2026, 1, d - 9>>

\* date.year
year_of(d) == isoformat(d)[1]

\* the date strings date.fromisoformat() accepts
IsIsoDate(date_str) ==
    \/ date_str[1] = 2025 /\ date_str[2] = 12 /\ date_str[3] \in 22..31
    \/ date_str[1] = 2026 /\ date_str[2] = 1 /\ date_str[3] \in 1..31

\* date.fromisoformat() of an accepted string
fromisoformat(date_str) ==
    IF date_str[1] = 2025 THEN date_str[3] - 22 ELSE date_str[3] + 9

valid_statuses == {"in-office", "remote"}

\* _validate_record_data: does the status pass
validate_record_data(status) == status \in valid_statuses

\* get_records_for_year: a missing file is an empty mapping
get_records_for_year(year) ==
    IF year \in DOMAIN files THEN files[year] ELSE <<>>

\* the dates on which attendance is recorded
RecordDates == {1, 3, 6, 10}

\* mutant: the year's existing records are not loaded before the update
save_record_file_fresh(record) ==
    LET year == year_of(record.date)
        date_str == isoformat(record.date)
    IN  [y \in DOMAIN files \cup {year} |->
            IF y = year THEN [k \in {date_str} |-> record.status] ELSE files[y]]

\* the files after save_record's atomic write of the updated year mapping
save_record_file(record) ==
    LET year == year_of(record.date)
        year_data == get_records_for_year(year)
        date_str == isoformat(record.date)
    IN  [y \in DOMAIN files \cup {year} |->
            IF y = year
            THEN [k \in DOMAIN year_data \cup {date_str} |->
                     IF k = date_str THEN record.status ELSE year_data[k]]
            ELSE files[y]]

\* mutant: the record is written before its status is validated
save_record_latecheck(record) ==
    IF ~validate_record_data(record.status)
    THEN [ret |-> Raise("StorageError"), files |-> save_record_file(record)]
    ELSE IF year_of(record.date) \in malformed
    THEN [ret |-> Raise("StorageError"), files |-> files]
    ELSE [ret |-> Ok("none"), files |-> save_record_file(record)]

\* save_record when the file system accepts the write: the result and the
\* year files afterwards
save_record(record) ==
    IF ~validate_record_data(record.status)
    THEN [ret |-> Raise("StorageError"), files |-> files]
    ELSE IF year_of(record.date) \in malformed
    THEN [ret |-> Raise("StorageError"), files |-> files]
    ELSE [ret |-> Ok("none"), files |-> save_record_file(record)]

\* the (year, date string) entries load_records walks through
LoadedEntries(start_date, end_date) ==
    {<<y, k>> \in UNION {{<<y, k>> : k \in DOMAIN get_records_for_year(y)} :
                           y \in year_of(start_date)..year_of(end_date)} : TRUE}

\* records.sort(key=date): stable, so equal dates keep their year order
RECURSIVE sort_records(_)
sort_records(E) ==
    IF E = {} THEN <<>>
    ELSE LET first == CHOOSE e \in E : \A f \in E :
                         \/ fromisoformat(e[2]) < fromisoformat(f[2])
                         \/ fromisoformat(e[2]) = fromisoformat(f[2]) /\ e[1] <= f[1]
         IN  <<[date |-> fromisoformat(first[2]),
                status |-> files[first[1]][first[2]]]>>
             \o sort_records(E \ {first})

\* a value of the year file that is a JSON array: Python reads it as a
\* list, which cannot be hashed for the membership test of
\* _validate_record_data
JsonArrays == {"[in-office]"}

hashable(status) == status \notin JsonArrays

\* the exception the loop body of load_records raises for one entry
entry_error(year, date_str) ==
    IF ~IsIsoDate(date_str) THEN "StorageError"
    ELSE IF ~hashable(files[year][date_str]) THEN "TypeError"
    ELSE IF ~validate_record_data(files[year][date_str]) THEN "StorageError"
    ELSE "none"

\* the order of the keys in a year file, as sort_keys=True writes them
key_le(a, b) ==
    \/ a[1] < b[1]
    \/ a[1] = b[1] /\ a[2] < b[2]
    \/ a[1] = b[1] /\ a[2] = b[2] /\ a[3] <= b[3]

\* the exception get_records_for_year or the first offending entry of the
\* year raises
year_error(year) ==
    IF year \in malformed THEN "StorageError"
    ELSE LET bad == {k \in DOMAIN get_records_for_year(year) :
                        entry_error(year, k) # "none"}
         IN  IF bad = {} THEN "none"
             ELSE entry_error(year, CHOOSE k \in bad : \A j \in bad : key_le(k, j))

\* the exception that ends load_records: the years are visited in ascending
\* order
load_error(start_date, end_date) ==
    LET bad == {y \in year_of(start_date)..year_of(end_date) : year_error(y) # "none"}
    IN  IF bad = {} THEN "none" ELSE year_error(SetMin(bad))

\* mutant: the range filter drops records dated on end_date
load_records_openend(start_date, end_date) ==
    LET entries == LoadedEntries(start_date, end_date)
    IN  IF load_error(start_date, end_date) # "none"
        THEN Raise(load_error(start_date, end_date))
        ELSE Ok(sort_records({e \in entries :
                    /\ start_date <= fromisoformat(e[2])
                    /\ fromisoformat(e[2]) < end_date}))

load_records(start_date, end_date) ==
    LET entries == LoadedEntries(start_date, end_date)
    IN  IF load_error(start_date, end_date) # "none"
        THEN Raise(load_error(start_date, end_date))
        ELSE Ok(sort_records({e \in entries :
                    /\ start_date <= fromisoformat(e[2])
                    /\ fromisoformat(e[2]) <= end_date}))

(***************************************************************************)
(* ComplianceChecker.calculate_compliance_status (compliance.py)           *)
(***************************************************************************)
\* mutant: the forward count starts on as_of_date itself
remaining_workdays_inclusive(period, as_of_date) ==
    IF as_of_date >= period.end_date THEN 0
    ELSE count_workdays(as_of_date, period.end_date)

remaining_workdays_of(period, as_of_date) ==
    IF as_of_date >= period.end_date THEN 0
    ELSE count_workdays(as_of_date + 1, period.end_date)

\* mutant: compliance needs strictly more days than required
is_compliant_strict(in_office_days, effective_required) ==
    in_office_days > effective_required

is_compliant_of(in_office_days, effective_required) ==
    in_office_days >= effective_required

\* mutant: only records dated on workdays are counted
in_office_days_of_workdays(records) ==
    Cardinality({i \in 1..Len(records) :
                   records[i].status = "in-office" /\ is_workday(records[i].date)})

\* sum(1 for r in records if r.status == "in-office")
in_office_days_of(records) ==
    Cardinality({i \in 1..Len(records) : records[i].status = "in-office"})

\* mutant: the requirement is read from the period's own field
calculate_compliance_status_stored(period, as_of_date) ==
    LET effective_required == period.effective_required_days
        end_for_calculation == Min(as_of_date, period.end_date)
        records == load_records(period.start_date, end_for_calculation)
    IN  IF records.kind # "ok" THEN records
        ELSE
        LET in_office_days == in_office_days_of(records.value)
            remaining_required == Max(0, effective_required - in_office_days)
            remaining_workdays == remaining_workdays_of(period, as_of_date)
            is_compliant == is_compliant_of(in_office_days, effective_required)
            is_achievable == remaining_required <= remaining_workdays
            risk_level == calculate_risk_level(remaining_required,
                                               remaining_workdays, is_compliant)
        IN  Ok([period |-> period,
                as_of_date |-> as_of_date,
                in_office_days |-> in_office_days,
                effective_required_days |-> effective_required,
                remaining_required_days |-> remaining_required,
                remaining_workdays |-> remaining_workdays,
                risk_level |-> risk_level,
                is_compliant |-> is_compliant,
                is_achievable |-> is_achievable])

calculate_compliance_status(period, as_of_date) ==
    LET effective_required == calculate_effective_required_days(period)
        end_for_calculation == Min(as_of_date, period.end_date)
        records == load_records(period.start_date, end_for_calculation)
    IN  IF records.kind # "ok" THEN records
        ELSE
        LET in_office_days == in_office_days_of(records.value)
            remaining_required == Max(0, effective_required - in_office_days)
            remaining_workdays == remaining_workdays_of(period, as_of_date)
            is_compliant == is_compliant_of(in_office_days, effective_required)
            is_achievable == remaining_required <= remaining_workdays
            risk_level == calculate_risk_level(remaining_required,
                                               remaining_workdays, is_compliant)
        IN  Ok([period |-> period,
                as_of_date |-> as_of_date,
                in_office_days |-> in_office_days,
                effective_required_days |-> effective_required,
                remaining_required_days |-> remaining_required,
                remaining_workdays |-> remaining_workdays,
                risk_level |-> risk_level,
                is_compliant |-> is_compliant,
                is_achievable |-> is_achievable])

(***************************************************************************)
(* ComplianceChecker accessors and predict_compliance (compliance.py)      *)
(***************************************************************************)
\* mutant: the floor at 0 is applied by nobody
get_remaining_required_days_unfloored(period, as_of_date) ==
    LET status == calculate_compliance_status(period, as_of_date)
    IN  IF status.kind # "ok" THEN status
        ELSE Ok(status.value.effective_required_days - status.value.in_office_days)

get_remaining_required_days(period, as_of_date) ==
    LET status == calculate_compliance_status(period, as_of_date)
    IN  IF status.kind # "ok" THEN status
        ELSE Ok(status.value.remaining_required_days)

is_achievable(period, as_of_date) ==
    LET status == calculate_compliance_status(period, as_of_date)
    IN  IF status.kind # "ok" THEN status
        ELSE Ok(status.value.is_achievable)

\* mutant: a planned date equal to as_of_date counts too
additional_days_from_as_of(period, planned_in_office_dates, as_of_date) ==
    Cardinality({i \in 1..Len(planned_in_office_dates) :
        LET planned_date == planned_in_office_dates[i]
        IN  /\ planned_date >= as_of_date
            /\ period.start_date <= planned_date
            /\ planned_date <= period.end_date
            /\ is_workday(planned_date)})

\* mutant: the workday test of the planned date is missing
additional_days_anyday(period, planned_in_office_dates, as_of_date) ==
    Cardinality({i \in 1..Len(planned_in_office_dates) :
        LET planned_date == planned_in_office_dates[i]
        IN  /\ planned_date > as_of_date
            /\ period.start_date <= planned_date
            /\ planned_date <= period.end_date})

\* the loop over planned_in_office_dates: one more day for every entry that
\* passes the tests
additional_days(period, planned_in_office_dates, as_of_date) ==
    Cardinality({i \in 1..Len(planned_in_office_dates) :
        LET planned_date == planned_in_office_dates[i]
        IN  /\ planned_date > as_of_date
            /\ period.start_date <= planned_date
            /\ planned_date <= period.end_date
            /\ is_workday(planned_date)})

\* mutant: the projection keeps the as-of date and the workdays of the
\* current status
projected_status_current(period, current_status, additional) ==
    LET projected_in_office_days == current_status.in_office_days + additional
        projected_remaining_required ==
            Max(0, current_status.effective_required_days - projected_in_office_days)
        projected_is_compliant ==
            projected_in_office_days >= current_status.effective_required_days
    IN  [period |-> period,
         as_of_date |-> current_status.as_of_date,
         in_office_days |-> projected_in_office_days,
         effective_required_days |-> current_status.effective_required_days,
         remaining_required_days |-> projected_remaining_required,
         remaining_workdays |-> current_status.remaining_workdays,
         risk_level |-> calculate_risk_level(projected_remaining_required,
                                             current_status.remaining_workdays,
                                             projected_is_compliant),
         is_compliant |-> projected_is_compliant,
         is_achievable |-> projected_remaining_required = 0]

\* the ComplianceStatus predict_compliance builds from the current status
projected_status(period, current_status, additional) ==
    LET projected_in_office_days == current_status.in_office_days + additional
        projected_remaining_required ==
            Max(0, current_status.effective_required_days - projected_in_office_days)
        projected_remaining_workdays == 0
        projected_is_compliant ==
            projected_in_office_days >= current_status.effective_required_days
        projected_is_achievable == projected_remaining_required = 0
        projected_risk_level ==
            calculate_risk_level(projected_remaining_required,
                                 projected_remaining_workdays,
                                 projected_is_compliant)
    IN  [period |-> period,
         as_of_date |-> period.end_date,
         in_office_days |-> projected_in_office_days,
         effective_required_days |-> current_status.effective_required_days,
         remaining_required_days |-> projected_remaining_required,
         remaining_workdays |-> projected_remaining_workdays,
         risk_level |-> projected_risk_level,
         is_compliant |-> projected_is_compliant,
         is_achievable |-> projected_is_achievable]

\* mutant: the planned dates that count are saved as in-office records
predict_compliance_saves(period, planned_in_office_dates, as_of_date) ==
    LET current_status == calculate_compliance_status(period, as_of_date)
        counted == {planned_in_office_dates[i] : i \in
                      {k \in 1..Len(planned_in_office_dates) :
                          additional_days(period, <<planned_in_office_dates[k]>>,
                                          as_of_date) = 1}}
    IN  [ret |-> IF current_status.kind # "ok" THEN current_status
                 ELSE Ok(projected_status(period, current_status.value,
                           additional_days(period, planned_in_office_dates, as_of_date))),
         files |-> [y \in DOMAIN files \cup {year_of(d) : d \in counted} |->
                     [k \in DOMAIN get_records_for_year(y)
                            \cup {isoformat(d) : d \in {c \in counted : year_of(c) = y}} |->
                        IF k \in DOMAIN get_records_for_year(y)
                        THEN get_records_for_year(y)[k] ELSE "in-office"]]]

\* predict_compliance: its result and the year files afterwards (it calls
\* the store through calculate_compliance_status only)
predict_compliance(period, planned_in_office_dates, as_of_date) ==
    LET current_status == calculate_compliance_status(period, as_of_date)
    IN  [ret |-> IF current_status.kind # "ok" THEN current_status
                 ELSE Ok(projected_status(period, current_status.value,
                           additional_days(period, planned_in_office_dates, as_of_date))),
         files |-> files]

(***************************************************************************)
(* Specification of the program: one period and the holiday calendar are   *)
(* configured, the store starts empty; attendance is recorded with         *)
(* save_record and compliance is queried for any as-of date.               *)
(***************************************************************************)
Init ==
    /\ exclusion_days \in ConfiguredExclusions
    /\ \E b \in 1..MaxBaseline, r \in PeriodRanges :
          periods = <<load_reporting_period(1, r, b)>>
    /\ files = <<>>
    /\ malformed = {}
    /\ tmp_files = <<>>
    /\ call = NoCall
    /\ ret = Ok("none")

SaveRecord ==
    \E d \in RecordDates, status \in valid_statuses \cup {"vacation"} :
        LET record == [date |-> d, status |-> status]
        IN  /\ call' = [op |-> "save_record", record |-> record]
            /\ ret' = save_record(record).ret
            /\ files' = save_record(record).files
            /\ UNCHANGED <<exclusion_days, periods, malformed, tmp_files>>

CalculateComplianceStatus ==
    \E i \in 1..Len(periods), as_of_date \in Dates :
        /\ call' = [op |-> "calculate_compliance_status",
                    period |-> periods[i], as_of_date |-> as_of_date]
        /\ ret' = calculate_compliance_status(periods[i], as_of_date)
        /\ UNCHANGED <<exclusion_days, periods, disk>>

Next == SaveRecord \/ CalculateComplianceStatus

Spec == Init /\ [][Next]_vars

(***************************************************************************)
(* Specification of the attendance store alone: records are saved and      *)
(* ranges are loaded.  A write that the file system refuses is modelled    *)
(* step by step in SpecWrite.                                              *)
(***************************************************************************)
InitStore ==
    /\ exclusion_days = {}
    /\ periods = <<>>
    /\ files = <<>>
    /\ malformed = {}
    /\ tmp_files = <<>>
    /\ call = NoCall
    /\ ret = Ok("none")

\* the range boundaries of the loads: the recorded dates, dates without a
\* record, the last day of 2025 and the first of 2026
LoadDates == {0, 1, 3, 4, 6, 9, 10, 13}

LoadRecords ==
    \E s \in LoadDates, e \in LoadDates :
        /\ call' = [op |-> "load_records", start_date |-> s, end_date |-> e]
        /\ ret' = load_records(s, e)
        /\ UNCHANGED <<exclusion_days, periods, disk>>

NextStore == SaveRecord \/ LoadRecords

SpecStore == InitStore /\ [][NextStore]_vars

(***************************************************************************)
(* save_record step by step: validation and the read of the year file,     *)
(* then _atomic_write's dump into the temporary file, chmod, rename and,   *)
(* when a step raises IOError/OSError, the except block.  Every file       *)
(* system call may fail.  tmp_files[year] tells whether the temporary file *)
(* holds the whole JSON text ("complete") or a broken-off one ("partial"). *)
(***************************************************************************)
Pending == [kind |-> "pending", value |-> "none"]

WriteInFlight == call.op = "save_record" /\ call.pc # "done"

without(f, year) == [y \in DOMAIN f \ {year} |-> f[y]]

DumpOutcomes == {"ok", "open_fails", "dump_fails"}

\* mutant: the JSON text is written straight into the year file
atomic_write_dump_inplace(year, year_data, outcome) ==
    CASE outcome = "ok" ->
            [files |-> [y \in DOMAIN files \cup {year} |->
                           IF y = year THEN year_data ELSE files[y]],
             malformed |-> malformed \ {year}, tmp_files |-> tmp_files]
      [] outcome = "open_fails" ->
            [files |-> files, malformed |-> malformed, tmp_files |-> tmp_files]
      [] outcome = "dump_fails" ->
            [files |-> without(files, year), malformed |-> malformed \cup {year},
             tmp_files |-> tmp_files]

\* with open(tmp_path, 'w') as f: json.dump(data, f, ...): the data
\* directory afterwards
atomic_write_dump(year, year_data, outcome) ==
    CASE outcome = "ok" ->
            [files |-> files, malformed |-> malformed,
             tmp_files |-> [y \in DOMAIN tmp_files \cup {year} |->
                               IF y = year THEN "complete" ELSE tmp_files[y]]]
      [] outcome = "open_fails" ->
            [files |-> files, malformed |-> malformed, tmp_files |-> tmp_files]
      [] outcome = "dump_fails" ->
            [files |-> files, malformed |-> malformed,
             tmp_files |-> [y \in DOMAIN tmp_files \cup {year} |->
                               IF y = year THEN "partial" ELSE tmp_files[y]]]

SaveRecordBegin ==
    \E d \in RecordDates, status \in valid_statuses \cup {"vacation"} :
        LET record == [date |-> d, status |-> status]
            year == year_of(d)
        IN  /\ ~WriteInFlight
            /\ IF ~validate_record_data(status) \/ year \in malformed
               THEN /\ call' = [op |-> "save_record", record |-> record,
                                pc |-> "done", before |-> files,
                                year_data |-> <<>>, failed |-> FALSE]
                    /\ ret' = Raise("StorageError")
               ELSE /\ call' = [op |-> "save_record", record |-> record,
                                pc |-> "dump", before |-> files,
                                year_data |-> save_record_file(record)[year],
                                failed |-> FALSE]
                    /\ ret' = Pending
            /\ UNCHANGED <<exclusion_days, periods, disk>>

AtomicWriteDump ==
    /\ call.op = "save_record" /\ call.pc = "dump"
    /\ \E outcome \in DumpOutcomes :
          LET out == atomic_write_dump(year_of(call.record.date), call.year_data, outcome)
          IN  /\ files' = out.files
              /\ malformed' = out.malformed
              /\ tmp_files' = out.tmp_files
              /\ call' = [call EXCEPT !.pc = IF outcome = "ok" THEN "chmod" ELSE "except",
                                       !.failed = outcome # "ok"]
    /\ UNCHANGED <<exclusion_days, periods, ret>>

AtomicWriteChmod ==
    /\ call.op = "save_record" /\ call.pc = "chmod"
    /\ \E ok \in BOOLEAN :
          call' = [call EXCEPT !.pc = IF ok THEN "rename" ELSE "except",
                               !.failed = ~ok]
    /\ UNCHANGED <<exclusion_days, periods, disk, ret>>

\* os.rename replaces the year file by the temporary file in one step
AtomicWriteRename ==
    /\ call.op = "save_record" /\ call.pc = "rename"
    /\ LET year == year_of(call.record.date)
       IN  \/ /\ files' = [y \in DOMAIN files \cup {year} |->
                              IF y = year THEN call.year_data ELSE files[y]]
              /\ malformed' = malformed \ {year}
              /\ tmp_files' = without(tmp_files, year)
              /\ call' = [call EXCEPT !.pc = "done"]
              /\ ret' = Ok("none")
           \/ /\ call' = [call EXCEPT !.pc = "except", !.failed = TRUE]
              /\ UNCHANGED <<disk, ret>>
    /\ UNCHANGED <<exclusion_days, periods>>

\* except (IOError, OSError): unlink the temporary file if it exists, best
\* effort, and raise StorageError
AtomicWriteExcept ==
    /\ call.op = "save_record" /\ call.pc = "except"
    /\ LET year == year_of(call.record.date)
       IN  \E unlinked \in BOOLEAN :
              tmp_files' = IF year \in DOMAIN tmp_files /\ unlinked
                           THEN without(tmp_files, year)
                           ELSE tmp_files
    /\ call' = [call EXCEPT !.pc = "done"]
    /\ ret' = Raise("StorageError")
    /\ UNCHANGED <<exclusion_days, periods, files, malformed>>

NextWrite ==
    \/ SaveRecordBegin
    \/ AtomicWriteDump
    \/ AtomicWriteChmod
    \/ AtomicWriteRename
    \/ AtomicWriteExcept

SpecWrite == InitStore /\ [][NextWrite]_vars

(***************************************************************************)
(* Specification of the compliance queries: the data directory holds year  *)
(* files of earlier runs; the status, its accessors and the prediction are *)
(* queried in any order and number.                                        *)
(***************************************************************************)
\* the dates with a record in the year files found at start
StoredDates == {3, 10}

\* the year files that hold the date -> status mapping recs
files_of(recs) ==
    [y \in {year_of(d) : d \in DOMAIN recs} |->
        [k \in {isoformat(d) : d \in {c \in DOMAIN recs : year_of(c) = y}} |->
            recs[fromisoformat(k)]]]

OnDiskStores ==
    {files_of(recs) : recs \in UNION {[S -> valid_statuses] : S \in SUBSET StoredDates}}

\* the lists of planned in-office dates: a Friday, a Sunday, New Year's Day,
\* a Tuesday, some of them named twice
PlannedLists ==
    {<<>>, <<4>>, <<6>>, <<10>>, <<4, 10>>, <<4, 4>>, <<6, 4, 10>>, <<8, 8>>}

InitQuery ==
    /\ exclusion_days \in ConfiguredExclusions
    /\ \E b \in 1..MaxBaseline, r \in PeriodRanges :
          periods = <<load_reporting_period(1, r, b)>>
    /\ files \in OnDiskStores
    /\ malformed = {}
    /\ tmp_files = <<>>
    /\ call = NoCall
    /\ ret = Ok("none")

GetRemainingRequiredDays ==
    \E i \in 1..Len(periods), as_of_date \in Dates :
        /\ call' = [op |-> "get_remaining_required_days", period |-> periods[i],
                    as_of_date |-> as_of_date]
        /\ ret' = get_remaining_required_days(periods[i], as_of_date)
        /\ UNCHANGED <<exclusion_days, periods, disk>>

IsAchievable ==
    \E i \in 1..Len(periods), as_of_date \in Dates :
        /\ call' = [op |-> "is_achievable", period |-> periods[i],
                    as_of_date |-> as_of_date]
        /\ ret' = is_achievable(periods[i], as_of_date)
        /\ UNCHANGED <<exclusion_days, periods, disk>>

PredictCompliance ==
    \E i \in 1..Len(periods), as_of_date \in Dates, planned \in PlannedLists :
        /\ call' = [op |-> "predict_compliance", period |-> periods[i],
                    planned_in_office_dates |-> planned, as_of_date |-> as_of_date]
        /\ ret' = predict_compliance(periods[i], planned, as_of_date).ret
        /\ files' = predict_compliance(periods[i], planned, as_of_date).files
        /\ UNCHANGED <<exclusion_days, periods, malformed, tmp_files>>

\* a behaviour makes one query: a query changes no state that a later one
\* reads
NextQuery ==
    \/ call = NoCall /\ CalculateComplianceStatus
    \/ call = NoCall /\ GetRemainingRequiredDays
    \/ call = NoCall /\ IsAchievable
    \/ call = NoCall /\ PredictCompliance

SpecQuery == InitQuery /\ [][NextQuery]_vars

(***************************************************************************)
(* Specification of status queries for periods the caller passes in: a     *)
(* configured period, its enriched copy, or a copy whose                   *)
(* effective_required_days field holds another value.                      *)
(***************************************************************************)
\* values found in the effective_required_days field of a passed period
StoredEffective == {0, 1, 20}

PassedPeriods ==
    {periods[i] : i \in 1..Len(periods)}
        \cup {enrich_period_with_exclusions(periods[i]) : i \in 1..Len(periods)}
        \cup {[periods[i] EXCEPT !.effective_required_days = e] :
                 i \in 1..Len(periods), e \in StoredEffective}

CalculateComplianceStatusOfPassed ==
    \E period \in PassedPeriods, as_of_date \in Dates :
        /\ call = NoCall
        /\ call' = [op |-> "calculate_compliance_status",
                    period |-> period, as_of_date |-> as_of_date]
        /\ ret' = calculate_compliance_status(period, as_of_date)
        /\ UNCHANGED <<exclusion_days, periods, disk>>

NextPassed == CalculateComplianceStatusOfPassed

SpecPassed == InitQuery /\ [][NextPassed]_vars

(***************************************************************************)
(* Specification of a session of compliance queries: one period over the   *)
(* whole window with both holidays configured, and any number of queries   *)
(* one after the other.                                                    *)
(***************************************************************************)
InitSession ==
    /\ exclusion_days = {3, 10}
    /\ \E b \in 1..MaxBaseline :
          periods = <<load_reporting_period(1, <<0, MaxDay>>, b)>>
    /\ files \in OnDiskStores
    /\ malformed = {}
    /\ tmp_files = <<>>
    /\ call = NoCall
    /\ ret = Ok("none")

NextSession ==
    \/ CalculateComplianceStatus
    \/ GetRemainingRequiredDays
    \/ IsAchievable
    \/ PredictCompliance

SpecSession == InitSession /\ [][NextSession]_vars

(***************************************************************************)
(* Specification of the compliance queries over a data directory in which  *)
(* one year file was damaged outside the program.                          *)
(***************************************************************************)
\* a date string date.fromisoformat() rejects
BadDateStr == <<2025, 13, 45>>

\* the year file of 2025 with one more entry
with_entry(date_str, status) ==
    [y \in {2025, 2026} |->
        IF y = 2025
        THEN [k \in {isoformat(3), date_str} |->
                IF k = date_str THEN status ELSE "in-office"]
        ELSE [k \in {isoformat(10)} |-> "in-office"]]

\* the damaged data directories: an unparseable year file, a date key that
\* is no date, a status that is no attendance status, a status that is an
\* array
DamagedStores ==
    {[files |-> files_of([d \in {10} |-> "in-office"]), malformed |-> {2025}],
     [files |-> files_of([d \in {3} |-> "in-office"]), malformed |-> {2026}],
     [files |-> with_entry(BadDateStr, "remote"), malformed |-> {}],
     [files |-> with_entry(isoformat(1), "vacation"), malformed |-> {}],
     [files |-> with_entry(isoformat(1), "[in-office]"), malformed |-> {}]}

InitDamaged ==
    /\ exclusion_days \in ConfiguredExclusions
    /\ \E b \in 1..MaxBaseline, r \in PeriodRanges :
          periods = <<load_reporting_period(1, r, b)>>
    /\ \E s \in DamagedStores : files = s.files /\ malformed = s.malformed
    /\ tmp_files = <<>>
    /\ call = NoCall
    /\ ret = Ok("none")

SpecDamaged == InitDamaged /\ [][NextQuery]_vars

(***************************************************************************)
(* Specification of loads from a data directory whose year file of 2025    *)
(* holds an entry written outside the program.                             *)
(***************************************************************************)
InitDamagedStore ==
    /\ exclusion_days = {}
    /\ periods = <<>>
    /\ \/ files = with_entry(isoformat(1), "remote")
       \/ \E s \in DamagedStores : s.malformed = {} /\ files = s.files
    /\ malformed = {}
    /\ tmp_files = <<>>
    /\ call = NoCall
    /\ ret = Ok("none")

NextDamagedStore == call = NoCall /\ LoadRecords

SpecDamagedStore == InitDamagedStore /\ [][NextDamagedStore]_vars

\* the stored date -> status mapping, as the files hold it
Stored ==
    UNION {{<<fromisoformat(k), files[y][k]>> : k \in DOMAIN files[y]} :
             y \in DOMAIN files}

(***************************************************************************)
(* Specification of a followed plan: a prediction is made, an in-office    *)
(* record is saved for every planned date the prediction counted, and the  *)
(* status is queried as of the period's end date.  call.plan carries the   *)
(* prediction through the saves.                                           *)
(***************************************************************************)
HasPlan ==
    \/ call.op = "predict_compliance" /\ ret.kind = "ok"
    \/ call.op = "save_record" /\ "plan" \in DOMAIN call

Plan ==
    IF call.op = "predict_compliance"
    THEN [period |-> call.period,
          planned_in_office_dates |-> call.planned_in_office_dates,
          as_of_date |-> call.as_of_date,
          prediction |-> ret.value,
          before |-> Stored,
          todo |-> {call.planned_in_office_dates[i] : i \in
                      {k \in 1..Len(call.planned_in_office_dates) :
                          additional_days(call.period,
                                          <<call.planned_in_office_dates[k]>>,
                                          call.as_of_date) = 1}}]
    ELSE call.plan

SavePlannedDate ==
    /\ HasPlan
    /\ \E d \in Plan.todo :
          LET record == [date |-> d, status |-> "in-office"]
          IN  /\ call' = [op |-> "save_record", record |-> record,
                          plan |-> [Plan EXCEPT !.todo = @ \ {d}]]
              /\ ret' = save_record(record).ret
              /\ files' = save_record(record).files
    /\ UNCHANGED <<exclusion_days, periods, malformed, tmp_files>>

StatusAtPeriodEnd ==
    /\ HasPlan
    /\ Plan.todo = {}
    /\ call' = [op |-> "calculate_compliance_status", period |-> Plan.period,
                as_of_date |-> Plan.period.end_date, plan |-> Plan]
    /\ ret' = calculate_compliance_status(Plan.period, Plan.period.end_date)
    /\ UNCHANGED <<exclusion_days, periods, disk>>

NextPlan ==
    \/ call = NoCall /\ PredictCompliance
    \/ SavePlannedDate
    \/ StatusAtPeriodEnd

SpecPlan == InitQuery /\ [][NextPlan]_vars

(***************************************************************************)
(* Specification of a period that was found impossible: the status as of   *)
(* some date is "impossible", afterwards in-office records are saved only  *)
(* for workdays after that date, and the status is queried again as of a   *)
(* later date.  call.verdict carries the first query through the saves.    *)
(***************************************************************************)
\* a short period from Friday 2025-12-26 to Monday 2025-12-29, and the week
\* around New Year's Day
VerdictRanges == {<<4, 7>>, <<7, 11>>}

\* the year files found at start: records of Thursday 2025-12-25 and of
\* Sunday 2025-12-28
VerdictStores ==
    {files_of(recs) : recs \in UNION {[S -> valid_statuses] : S \in SUBSET {3, 6}}}

\* the dates of the later saves: Monday 2025-12-29, Tuesday 2025-12-30,
\* Friday 2026-01-02
FollowUpDates == {7, 8, 11}

InitVerdict ==
    /\ exclusion_days \in ConfiguredExclusions
    /\ \E b \in 1..MaxBaseline, r \in VerdictRanges :
          periods = <<load_reporting_period(1, r, b)>>
    /\ files \in VerdictStores
    /\ malformed = {}
    /\ tmp_files = <<>>
    /\ call = NoCall
    /\ ret = Ok("none")

HasVerdict ==
    \/ /\ call.op = "calculate_compliance_status"
       /\ "verdict" \notin DOMAIN call
       /\ ret.kind = "ok"
       /\ ret.value.risk_level = "impossible"
    \/ call.op = "save_record" /\ "verdict" \in DOMAIN call

Verdict ==
    IF call.op = "calculate_compliance_status"
    THEN [period |-> call.period, as_of_date |-> call.as_of_date]
    ELSE call.verdict

SaveWorkdayAfterVerdict ==
    /\ HasVerdict
    /\ \E d \in FollowUpDates :
          LET record == [date |-> d, status |-> "in-office"]
          IN  /\ d > Verdict.as_of_date
              /\ is_workday(d)
              /\ call' = [op |-> "save_record", record |-> record,
                          verdict |-> Verdict]
              /\ ret' = save_record(record).ret
              /\ files' = save_record(record).files
    /\ UNCHANGED <<exclusion_days, periods, malformed, tmp_files>>

StatusAfterVerdict ==
    /\ HasVerdict
    /\ \E as_of_date \in Dates :
          /\ as_of_date > Verdict.as_of_date
          /\ call' = [op |-> "calculate_compliance_status",
                      period |-> Verdict.period, as_of_date |-> as_of_date,
                      verdict |-> Verdict]
          /\ ret' = calculate_compliance_status(Verdict.period, as_of_date)
    /\ UNCHANGED <<exclusion_days, periods, disk>>

NextVerdict ==
    \/ call = NoCall /\ CalculateComplianceStatus
    \/ SaveWorkdayAfterVerdict
    \/ StatusAfterVerdict

SpecVerdict == InitVerdict /\ [][NextVerdict]_vars

(***************************************************************************)
(* Claims                                                                  *)
(***************************************************************************)

\* C1: the risk label returned for (remaining_required, remaining_workdays,
\* is_compliant) is exactly one of the five labels, chosen by the ordered
\* rules: achieved iff compliant; else impossible iff required > workdays;
\* else by buffer = workdays - required: critical iff 0, at-risk iff
\* 0 < buffer < 5, possible iff buffer >= 5.
C1_RiskRules ==
    call.op = "_calculate_risk_level" =>
        LET rr == call.remaining_required
            rw == call.remaining_workdays
            ic == call.is_compliant
            buffer == rw - rr
            lbl == ret.value
        IN  /\ ret.kind = "ok"
            /\ lbl \in RiskLevels
            /\ (lbl = "achieved") <=> ic
            /\ (lbl = "impossible") <=> (~ic /\ rr > rw)
            /\ (lbl = "critical") <=> (~ic /\ rr <= rw /\ buffer = 0)
            /\ (lbl = "at-risk") <=> (~ic /\ rr <= rw /\ 0 < buffer /\ buffer < 5)
            /\ (lbl = "possible") <=> (~ic /\ rr <= rw /\ buffer >= 5)

\* C1 witness: a non-compliant call at the at-risk/possible boundary
\* (buffer exactly 5) classified "possible".
C1_Witness ==
    /\ call.op = "_calculate_risk_level"
    /\ ~call.is_compliant
    /\ call.remaining_required > 0
    /\ call.remaining_workdays - call.remaining_required = 5
    /\ ret.value = "possible"

\* C2: calculate_compliance_status returns in_office_days equal to the
\* number of stored "in-office" records dated in
\* [period.start_date, min(as_of_date, period.end_date)]; remote records,
\* dates without a record and records after as_of_date or outside the period
\* do not count.
C2_InOfficeDays ==
    call.op = "calculate_compliance_status" =>
        LET p == call.period
            last == Min(call.as_of_date, p.end_date)
        IN  /\ ret.kind = "ok"
            /\ ret.value.in_office_days =
                  Cardinality({e \in Stored :
                                 /\ e[2] = "in-office"
                                 /\ p.start_date <= e[1]
                                 /\ e[1] <= last})

\* C2 witness: the store holds a counted in-office record, a remote record
\* in the loaded range and an in-office record of the period dated after
\* as_of_date (the range runs over the year boundary); the count leaves the
\* last two out.
C2_Witness ==
    /\ call.op = "calculate_compliance_status"
    /\ call.as_of_date < call.period.end_date
    /\ year_of(call.period.start_date) < year_of(call.period.end_date)
    /\ \E e \in Stored : /\ e[2] = "in-office"
                         /\ call.period.start_date <= e[1]
                         /\ e[1] <= call.as_of_date
    /\ \E e \in Stored : /\ e[2] = "remote"
                         /\ call.period.start_date <= e[1]
                         /\ e[1] <= call.as_of_date
    /\ \E e \in Stored : /\ e[2] = "in-office"
                         /\ call.as_of_date < e[1]
                         /\ e[1] <= call.period.end_date
    /\ ret.kind = "ok"
    /\ ret.value.in_office_days >= 1
    /\ ret.value.in_office_days < Cardinality({e \in Stored : e[2] = "in-office"})

\* C3: remaining_workdays is 0 whenever as_of_date >= period.end_date, and
\* otherwise count_workdays(as_of_date + 1, period.end_date): the workdays
\* strictly after as_of_date up to the period's end.
C3_RemainingWorkdays ==
    (call.op = "calculate_compliance_status" /\ ret.kind = "ok") =>
        LET p == call.period
            d == call.as_of_date
        IN  /\ d >= p.end_date => ret.value.remaining_workdays = 0
            /\ d < p.end_date =>
                  /\ ret.value.remaining_workdays = count_workdays(d + 1, p.end_date)
                  /\ ret.value.remaining_workdays =
                        Cardinality({x \in (d + 1)..p.end_date : is_workday(x)})

\* C3 witness: as_of_date is a workday inside the period, more than a week
\* before its end, and is left out of the forward count.
C3_Witness ==
    /\ call.op = "calculate_compliance_status"
    /\ ret.kind = "ok"
    /\ call.period.start_date <= call.as_of_date
    /\ call.as_of_date + 7 < call.period.end_date
    /\ is_workday(call.as_of_date)
    /\ ret.value.remaining_workdays =
          Cardinality({x \in call.as_of_date..call.period.end_date : is_workday(x)}) - 1

\* C4: every returned status has remaining_required_days =
\* max(0, effective_required_days - in_office_days), is_compliant iff
\* in_office_days >= effective_required_days, is_achievable iff
\* remaining_required_days <= remaining_workdays; and when in_office_days >=
\* effective_required_days it is compliant, "achieved", with nothing remaining.
C4_StatusFields ==
    (call.op = "calculate_compliance_status" /\ ret.kind = "ok") =>
        LET st == ret.value
        IN  /\ st.remaining_required_days =
                  Max(0, st.effective_required_days - st.in_office_days)
            /\ st.is_compliant <=> (st.in_office_days >= st.effective_required_days)
            /\ st.is_achievable <=> (st.remaining_required_days <= st.remaining_workdays)
            /\ st.in_office_days >= st.effective_required_days =>
                  /\ st.is_compliant
                  /\ st.risk_level = "achieved"
                  /\ st.remaining_required_days = 0

\* C4 witness: the requirement is met exactly (in_office_days equals a
\* positive effective_required_days) after the period has ended.
C4_Witness ==
    /\ call.op = "calculate_compliance_status"
    /\ ret.kind = "ok"
    /\ ret.value.effective_required_days > 0
    /\ ret.value.in_office_days = ret.value.effective_required_days
    /\ call.as_of_date >= call.period.end_date
    /\ ret.value.is_compliant
    /\ ret.value.risk_level = "achieved"

\* C5: for start <= end, count_workdays(start, end) is the number of dates
\* d in [start, end] with is_workday(d), where is_workday(d) means d is not
\* a Saturday/Sunday and d is not in the exclusion set; a single-day range
\* on a workday counts 1.
C5_CountIsDayByDay ==
    /\ \A d \in Dates :
          is_workday(d) <=> (weekday(d) \notin {5, 6} /\ d \notin exclusion_days)
    /\ (call.op = "count_workdays" /\ call.start_date <= call.end_date) =>
          /\ ret.kind = "ok"
          /\ ret.value = Cardinality({d \in call.start_date..call.end_date :
                                        weekday(d) \notin {5, 6} /\ d \notin exclusion_days})
          /\ (call.start_date = call.end_date /\ is_workday(call.start_date))
                => ret.value = 1

\* C5 witness: a range of at least one complete week plus a remainder that
\* holds a weekend day, with a weekday exclusion and a weekend exclusion
\* inside it.
C5_Witness ==
    /\ call.op = "count_workdays"
    /\ call.end_date - call.start_date + 1 > 7
    /\ (call.end_date - call.start_date + 1) % 7 # 0
    /\ \E i \in 0..(((call.end_date - call.start_date + 1) % 7) - 1) :
          is_weekend(call.start_date + i)
    /\ \E d \in exclusion_days :
          call.start_date <= d /\ d <= call.end_date /\ ~is_weekend(d)
    /\ \E d \in exclusion_days :
          call.start_date <= d /\ d <= call.end_date /\ is_weekend(d)
    /\ ret.value = Cardinality({d \in call.start_date..call.end_date : is_workday(d)})

\* C6: count_workdays is additive over adjacent ranges: for s <= m < e,
\* count_workdays(s, e) = count_workdays(s, m) + count_workdays(m + 1, e).
C6_Additive ==
    (call.op = "count_workdays" /\ call.start_date < call.end_date) =>
        \A m \in call.start_date..(call.end_date - 1) :
            ret.value = count_workdays(call.start_date, m)
                        + count_workdays(m + 1, call.end_date)

\* C6 witness: a range longer than a week holding a weekday exclusion, which
\* splits at a workday m into two non-empty parts.
C6_Witness ==
    /\ call.op = "count_workdays"
    /\ call.end_date - call.start_date >= 7
    /\ \E d \in exclusion_days :
          call.start_date <= d /\ d <= call.end_date /\ ~is_weekend(d)
    /\ \E m \in call.start_date..(call.end_date - 1) :
          /\ is_workday(m)
          /\ count_workdays(call.start_date, m) > 0
          /\ count_workdays(m + 1, call.end_date) > 0
          /\ ret.value = count_workdays(call.start_date, m)
                          + count_workdays(m + 1, call.end_date)

\* C7 (as claimed): a range query with start after end fails with a
\* validation error and returns no value.
C7_ReversedRangeRaises ==
    (call.op \in {"count_workdays", "get_exclusions_in_range"}
        /\ call.start_date > call.end_date) => ret.kind = "ValidationError"

\* C8: get_exclusions_in_range(start, end) returns exactly the exclusion
\* dates d with start <= d <= end that fall on Monday..Friday, strictly
\* ascending (so without duplicates), and never a Saturday or Sunday.
C8_ExclusionsInRange ==
    call.op = "get_exclusions_in_range" =>
        LET r == ret.value
        IN  /\ ret.kind = "ok"
            /\ Range(r) = {d \in exclusion_days :
                             /\ call.start_date <= d
                             /\ d <= call.end_date
                             /\ weekday(d) \in 0..4}
            /\ \A i \in 1..Len(r) : \A j \in 1..Len(r) : i < j => r[i] < r[j]
            /\ \A i \in 1..Len(r) : weekday(r[i]) \notin {5, 6}

\* C8 witness: both range boundaries are weekday exclusions and are
\* returned, first boundary first.
C8_Witness ==
    /\ call.op = "get_exclusions_in_range"
    /\ call.start_date < call.end_date
    /\ {call.start_date, call.end_date} \subseteq exclusion_days
    /\ ret.value = <<call.start_date, call.end_date>>

\* C9: calculate_effective_required_days(period) is max(0, baseline - number
\* of exclusion dates in [start_date, end_date] on Monday..Friday): never
\* negative, and unchanged by an exclusion on a Saturday or Sunday.
C9_EffectiveRequired ==
    call.op = "calculate_effective_required_days" =>
        LET p == call.period
            weekdayExcl == {d \in exclusion_days :
                              /\ p.start_date <= d
                              /\ d <= p.end_date
                              /\ weekday(d) \in 0..4}
        IN  /\ ret.kind = "ok"
            /\ ret.value = Max(0, p.baseline_required_days - Cardinality(weekdayExcl))
            /\ ret.value >= 0

\* C9 witness: more weekday exclusions in the period than its baseline, so
\* the floor at 0 applies.
C9_Witness ==
    /\ call.op = "calculate_effective_required_days"
    /\ Cardinality({d \in exclusion_days :
                      /\ call.period.start_date <= d
                      /\ d <= call.period.end_date
                      /\ ~is_weekend(d)}) > call.period.baseline_required_days
    /\ ret.value = 0

\* C10: get_period_for_date(d) returns the first period in configured order
\* that contains d, never a period that does not contain d, and fails with a
\* validation error exactly when no configured period contains d (so always
\* on an empty period list).
C10_FirstMatch ==
    call.op = "get_period_for_date" =>
        LET d == call.check_date
            contains(i) == periods[i].start_date <= d /\ d <= periods[i].end_date
        IN  /\ (ret.kind = "ValidationError") <=>
                  (\A i \in 1..Len(periods) : ~contains(i))
            /\ ret.kind \in {"ok", "ValidationError"}
            /\ Len(periods) = 0 => ret.kind = "ValidationError"
            /\ ret.kind = "ok" =>
                  /\ ret.value.start_date <= d /\ d <= ret.value.end_date
                  /\ \E i \in 1..Len(periods) :
                        /\ contains(i)
                        /\ \A j \in 1..(i - 1) : ~contains(j)
                        /\ ret.value = periods[i]

\* C10 witness: two different configured periods contain the date and the
\* first of them is returned.
C10_Witness ==
    /\ call.op = "get_period_for_date"
    /\ Len(periods) >= 2
    /\ <<periods[1].start_date, periods[1].end_date>>
          # <<periods[2].start_date, periods[2].end_date>>
    /\ \A i \in 1..2 : /\ periods[i].start_date <= call.check_date
                       /\ call.check_date <= periods[i].end_date
    /\ ret = Ok(periods[1])

\* C11: get_periods_for_date(d) returns, without an error, exactly the
\* configured periods whose inclusive range contains d, in their configured
\* order (the empty list when there is none); get_period_for_date(d)
\* succeeds exactly when that list is non-empty and then returns its first
\* element.
C11_AllMatchesInOrder ==
    call.op = "get_periods_for_date" =>
        LET d == call.check_date
            r == ret.value
            I == {i \in 1..Len(periods) :
                     periods[i].start_date <= d /\ d <= periods[i].end_date}
            nth(k) == CHOOSE i \in I : Cardinality({j \in I : j <= i}) = k
        IN  /\ ret.kind = "ok"
            /\ Len(r) = Cardinality(I)
            /\ \A k \in 1..Len(r) : r[k] = periods[nth(k)]
            /\ (get_period_for_date(d).kind = "ok") <=> (Len(r) > 0)
            /\ Len(r) > 0 => get_period_for_date(d) = Ok(r[1])
            /\ Len(r) = 0 => get_period_for_date(d) = Raise("ValidationError")

\* C11 witness: two periods with different ranges both contain the date and
\* are returned in configured order.
C11_Witness ==
    /\ call.op = "get_periods_for_date"
    /\ Len(ret.value) = 2
    /\ ret.value[1].period_number < ret.value[2].period_number
    /\ ret.value[1].start_date # ret.value[2].start_date

\* C19: enrich_period_with_exclusions(period) returns a period whose
\* exclusion_days is get_exclusions_in_range(start_date, end_date), whose
\* effective_required_days is calculate_effective_required_days(period) and
\* whose other fields are the input's; the input period and the configured
\* period list are as before the call.
C19_Enrich ==
    [][call'.op = "enrich_period_with_exclusions" =>
          LET period == call'.period
              r == ret'.value
          IN  /\ ret'.kind = "ok"
              /\ r.exclusion_days =
                    get_exclusions_in_range(period.start_date, period.end_date)
              /\ r.effective_required_days =
                    Max(0, period.baseline_required_days - Len(r.exclusion_days))
              /\ r.effective_required_days = calculate_effective_required_days(period)
              /\ r.period_number = period.period_number
              /\ r.start_date = period.start_date
              /\ r.end_date = period.end_date
              /\ r.report_date = period.report_date
              /\ r.baseline_required_days = period.baseline_required_days
              /\ periods' = periods
              /\ periods'[call'.index] = period]_vars

\* C19 witness: a configured period with a weekday exclusion in its range
\* was enriched; the result differs from the input, which is still in the
\* configured list.
C19_Witness ==
    /\ call.op = "enrich_period_with_exclusions"
    /\ ret.value.exclusion_days # <<>>
    /\ ret.value.effective_required_days < call.period.effective_required_days
    /\ periods[call.index] = call.period
    /\ call.period.exclusion_days = <<>>

\* C12: predict_compliance(period, planned, as_of_date) returns, without an
\* error, in_office_days = the in_office_days of
\* calculate_compliance_status(period, as_of_date) plus the number of
\* entries p of planned with p > as_of_date, start_date <= p <= end_date and
\* p a workday (Monday..Friday, no exclusion day); all other entries add
\* nothing, and an empty list yields the current in_office_days.
C12_PlannedDaysCounted ==
    call.op = "predict_compliance" =>
        LET planned == call.planned_in_office_dates
            current == calculate_compliance_status(call.period, call.as_of_date)
            counted == {i \in 1..Len(planned) :
                          /\ planned[i] > call.as_of_date
                          /\ call.period.start_date <= planned[i]
                          /\ planned[i] <= call.period.end_date
                          /\ weekday(planned[i]) \in 0..4
                          /\ planned[i] \notin exclusion_days}
        IN  /\ ret.kind = "ok"
            /\ current.kind = "ok"
            /\ ret.value.in_office_days =
                  current.value.in_office_days + Cardinality(counted)
            /\ planned = <<>> =>
                  ret.value.in_office_days = current.value.in_office_days

\* C12 witness: of three planned dates one is a Sunday, one an exclusion
\* day and one counts, on top of a recorded in-office day.
C12_Witness ==
    /\ call.op = "predict_compliance"
    /\ call.planned_in_office_dates = <<6, 4, 10>>
    /\ 10 \in exclusion_days
    /\ call.as_of_date = 3
    /\ ret.kind = "ok"
    /\ ret.value.in_office_days = 2

\* C13: the status predict_compliance returns has as_of_date =
\* period.end_date and remaining_workdays = 0, whatever the as_of_date of
\* the call.
C13_ProjectedToPeriodEnd ==
    (call.op = "predict_compliance" /\ ret.kind = "ok") =>
        /\ ret.value.as_of_date = call.period.end_date
        /\ ret.value.remaining_workdays = 0

\* C13 witness: a prediction from a date inside the period with workdays
\* left, so the current status has another as_of_date and workday count.
C13_Witness ==
    /\ call.op = "predict_compliance"
    /\ ret.kind = "ok"
    /\ call.period.start_date < call.as_of_date
    /\ call.as_of_date < call.period.end_date
    /\ calculate_compliance_status(call.period, call.as_of_date).value.remaining_workdays > 0

\* C14: calculate_compliance_status, get_remaining_required_days,
\* is_achievable and predict_compliance leave the year files, and so the
\* stored date -> status mapping, as they were, in every step of every
\* sequence of such calls.
C14_QueriesKeepStore ==
    [][call'.op \in {"calculate_compliance_status", "get_remaining_required_days",
                     "is_achievable", "predict_compliance"}
          => (files' = files /\ malformed' = malformed /\ Stored' = Stored)]_vars

\* C14 witness: a prediction that counts a planned date while the store
\* holds one record, none of it for that date.
C14_Witness ==
    /\ call.op = "predict_compliance"
    /\ ret.kind = "ok"
    /\ call.planned_in_office_dates = <<4>>
    /\ ret.value.in_office_days = 2
    /\ Stored = {<<3, "in-office">>}

\* C17 (as claimed): when the year files read by calculate_compliance_status
\* or predict_compliance hold malformed data, a date key that is no date or
\* a status that is no attendance status, the call fails with a
\* StorageError.
C17_ReadFailureIsStorageError ==
    call.op \in {"calculate_compliance_status", "predict_compliance"} =>
        LET read == year_of(call.period.start_date)
                      ..year_of(Min(call.as_of_date, call.period.end_date))
            damaged == \E y \in read :
                          \/ y \in malformed
                          \/ /\ y \in DOMAIN files
                             /\ \E k \in DOMAIN files[y] :
                                   \/ ~IsIsoDate(k)
                                   \/ files[y][k] \notin {"in-office", "remote"}
        IN  damaged => ret.kind = "StorageError"

\* C20: get_remaining_required_days(period, d) and is_achievable(period, d)
\* return the remaining_required_days and is_achievable fields of
\* calculate_compliance_status(period, d) on the same store.
C20_AccessorsAgree ==
    /\ call.op = "get_remaining_required_days" =>
          /\ ret.kind = "ok"
          /\ ret.value = calculate_compliance_status(call.period, call.as_of_date)
                            .value.remaining_required_days
    /\ call.op = "is_achievable" =>
          /\ ret.kind = "ok"
          /\ ret.value = calculate_compliance_status(call.period, call.as_of_date)
                            .value.is_achievable

\* C20 witness: more in-office days are recorded than required, the
\* accessor returns 0 remaining days.
C20_Witness ==
    /\ call.op = "get_remaining_required_days"
    /\ ret = Ok(0)
    /\ LET status == calculate_compliance_status(call.period, call.as_of_date).value
       IN  status.in_office_days > status.effective_required_days

\* C15: a successful save_record(d, s) makes s the one stored status of d
\* and keeps every other date's record; load_records(start, end) returns
\* exactly one record for each stored date in [start, end], with its stored
\* status, in ascending date order, whatever years the range spans; dates
\* never saved yield no record.
C15_SaveThenLoad ==
    [][/\ (call'.op = "save_record" /\ ret'.kind = "ok") =>
             Stored' = {e \in Stored : e[1] # call'.record.date}
                         \cup {<<call'.record.date, call'.record.status>>}
       /\ (call'.op = "save_record" /\ ret'.kind # "ok") => Stored' = Stored
       /\ call'.op = "load_records" =>
             LET r == ret'.value
                 inRange == {e \in Stored' : /\ call'.start_date <= e[1]
                                             /\ e[1] <= call'.end_date}
             IN  /\ ret'.kind = "ok"
                 /\ Stored' = Stored
                 /\ {<<r[i].date, r[i].status>> : i \in 1..Len(r)} = inRange
                 /\ Len(r) = Cardinality({e[1] : e \in inRange})
                 /\ \A i \in 1..Len(r) : \A j \in 1..Len(r) :
                       i < j => r[i].date < r[j].date]_vars

\* C15 witness: a date saved twice with different statuses, then a load over
\* the year boundary that returns two records, the first with the later
\* status.
C15_Witness ==
    /\ call.op = "load_records"
    /\ year_of(call.start_date) < year_of(call.end_date)
    /\ ret.kind = "ok"
    /\ Len(ret.value) = 2
    /\ year_of(ret.value[1].date) < year_of(ret.value[2].date)
    /\ Cardinality(Stored) > 2

\* C16: save_record with a status outside {"in-office", "remote"} fails with
\* a StorageError and leaves the data directory exactly as it was.
C16_InvalidStatusRejected ==
    [][(call'.op = "save_record" /\ call'.record.status \notin {"in-office", "remote"})
          => (ret'.kind = "StorageError" /\ disk' = disk)]_vars

\* C16 witness: an invalid status was rejected while the store held records.
C16_Witness ==
    /\ call.op = "save_record"
    /\ call.record.status = "vacation"
    /\ ret.kind = "StorageError"
    /\ \E e \in Stored : e[1] = call.record.date

\* C18: whichever step of the write fails (writing the temporary file,
\* chmod, rename), save_record raises StorageError and the year files hold
\* the mappings they held before the call; at every point of the call no
\* year file is broken and the year file holds either the complete previous
\* mapping or the complete new one.
C18_AtomicWrite ==
    call.op = "save_record" =>
        LET previous == call.before
            year == year_of(call.record.date)
            old == IF year \in DOMAIN previous THEN previous[year] ELSE <<>>
            key == isoformat(call.record.date)
            new == [y \in DOMAIN previous \cup {year} |->
                      IF y = year
                      THEN [k \in DOMAIN old \cup {key} |->
                              IF k = key THEN call.record.status ELSE old[k]]
                      ELSE previous[y]]
        IN  /\ malformed = {}
            /\ files = previous \/ files = new
            /\ (call.pc = "done" /\ call.failed) => ret = Raise("StorageError")
            /\ ret.kind = "StorageError" => files = previous
            /\ (call.pc = "done" /\ ret.kind = "ok") => files = new

\* C18 witness: the write failed after the temporary file was complete, the
\* cleanup failed too, and the year file still holds its earlier records.
C18_Witness ==
    /\ call.op = "save_record"
    /\ call.pc = "done"
    /\ call.failed
    /\ ret = Raise("StorageError")
    /\ year_of(call.record.date) \in DOMAIN files
    /\ isoformat(call.record.date) \in DOMAIN files[year_of(call.record.date)]
    /\ files[year_of(call.record.date)][isoformat(call.record.date)] # call.record.status
    /\ year_of(call.record.date) \in DOMAIN tmp_files
    /\ tmp_files[year_of(call.record.date)] = "complete"

\* C21: the effective_required_days of a returned status is
\* max(0, baseline - weekday exclusions in the period), recomputed from the
\* period's baseline and the exclusion set; whatever value the passed
\* period carries in its own effective_required_days field, every computed
\* field of the status is the same (the period field is the passed period
\* itself).
C21_EffectiveRecomputed ==
    (call.op = "calculate_compliance_status" /\ ret.kind = "ok") =>
        LET period == call.period
            s == ret.value
        IN  /\ s.effective_required_days =
                  Max(0, period.baseline_required_days
                           - Cardinality({d \in exclusion_days :
                                            /\ period.start_date <= d
                                            /\ d <= period.end_date
                                            /\ weekday(d) \in 0..4}))
            /\ s.period = period
            /\ \A e \in StoredEffective :
                  LET o == calculate_compliance_status(
                               [period EXCEPT !.effective_required_days = e],
                               call.as_of_date).value
                  IN  /\ o.as_of_date = s.as_of_date
                      /\ o.in_office_days = s.in_office_days
                      /\ o.effective_required_days = s.effective_required_days
                      /\ o.remaining_required_days = s.remaining_required_days
                      /\ o.remaining_workdays = s.remaining_workdays
                      /\ o.risk_level = s.risk_level
                      /\ o.is_compliant = s.is_compliant
                      /\ o.is_achievable = s.is_achievable

\* C21 witness: the passed period says 20 days are required, the status
\* says 1 (baseline 2, one weekday exclusion in the period).
C21_Witness ==
    /\ call.op = "calculate_compliance_status"
    /\ ret.kind = "ok"
    /\ call.period.effective_required_days = 20
    /\ call.period.baseline_required_days = 2
    /\ ret.value.effective_required_days = 1

\* C22: in_office_days counts every stored in-office record dated in
\* [start_date, min(as_of_date, end_date)], those dated on a Saturday, a
\* Sunday or an exclusion day as well as those dated on workdays.
C22_NonWorkdayRecordsCount ==
    (call.op = "calculate_compliance_status" /\ ret.kind = "ok") =>
        LET loaded == {e \in Stored :
                         /\ e[2] = "in-office"
                         /\ call.period.start_date <= e[1]
                         /\ e[1] <= call.as_of_date
                         /\ e[1] <= call.period.end_date}
            off == {e \in loaded : weekday(e[1]) \in {5, 6} \/ e[1] \in exclusion_days}
        IN  ret.value.in_office_days
               = Cardinality(loaded \ off) + Cardinality(off)

\* C22 witness: the two counted in-office records are dated on a Sunday and
\* on an exclusion day.
C22_Witness ==
    /\ call.op = "calculate_compliance_status"
    /\ ret.kind = "ok"
    /\ ret.value.in_office_days = 2
    /\ 10 \in exclusion_days
    /\ {e \in Stored : e[2] = "in-office"} = {<<6, "in-office">>, <<10, "in-office">>}

\* C23 (as claimed): load_records(start, end) raises StorageError exactly
\* when some entry of a year file of the years start.year..end.year has a
\* date key that is no date or a status outside {"in-office", "remote"},
\* wherever the entry's date lies; entries of other year files never make
\* it fail.
C23_EveryEntryValidated ==
    call.op = "load_records" =>
        LET read == year_of(call.start_date)..year_of(call.end_date)
            invalid == \E y \in read \cap DOMAIN files :
                          \E k \in DOMAIN files[y] :
                              \/ ~IsIsoDate(k)
                              \/ files[y][k] \notin {"in-office", "remote"}
        IN  (ret.kind = "StorageError") <=> invalid

\* C24: in every status calculate_compliance_status returns, is_compliant
\* implies is_achievable, risk_level is "impossible" exactly when
\* is_achievable is false, and risk_level is "achieved" exactly when
\* is_compliant is true.
C24_FlagsAndRiskAgree ==
    (call.op = "calculate_compliance_status" /\ ret.kind = "ok") =>
        /\ ret.value.is_compliant => ret.value.is_achievable
        /\ (ret.value.risk_level = "impossible") <=> ~ret.value.is_achievable
        /\ (ret.value.risk_level = "achieved") <=> ret.value.is_compliant

\* C24 witness: a status that is achievable with no workday to spare and
\* not yet compliant, so neither "impossible" nor "achieved".
C24_Witness ==
    /\ call.op = "calculate_compliance_status"
    /\ ret.kind = "ok"
    /\ ~ret.value.is_compliant
    /\ ret.value.is_achievable
    /\ ret.value.remaining_required_days = ret.value.remaining_workdays
    /\ ret.value.risk_level = "critical"

\* C25: in the status predict_compliance returns, is_achievable and
\* is_compliant both equal (remaining_required_days = 0), and risk_level is
\* "achieved" or "impossible", never "critical", "at-risk" or "possible".
C25_ProjectionIsDecided ==
    (call.op = "predict_compliance" /\ ret.kind = "ok") =>
        /\ ret.value.is_achievable = (ret.value.remaining_required_days = 0)
        /\ ret.value.is_compliant = (ret.value.remaining_required_days = 0)
        /\ ret.value.risk_level \in {"achieved", "impossible"}
        /\ (ret.value.risk_level = "achieved") <=> ret.value.is_compliant

\* C25 witness: the current status is "critical" or milder with workdays
\* left, and the projection of it is "impossible".
C25_Witness ==
    /\ call.op = "predict_compliance"
    /\ ret.kind = "ok"
    /\ ret.value.risk_level = "impossible"
    /\ LET current == calculate_compliance_status(call.period, call.as_of_date).value
       IN  /\ current.risk_level \in {"critical", "at-risk", "possible"}
           /\ current.remaining_workdays > 0

\* C26 (as claimed): the remaining_workdays of a status lies between 0 and
\* the number of workdays of the period, for every as_of_date, also one
\* before period.start_date.
C26_RemainingWithinPeriod ==
    (call.op = "calculate_compliance_status" /\ ret.kind = "ok") =>
        /\ 0 <= ret.value.remaining_workdays
        /\ ret.value.remaining_workdays
              <= Cardinality({d \in call.period.start_date..call.period.end_date :
                                weekday(d) \in 0..4 /\ d \notin exclusion_days})

\* C27 (as claimed): the days a projection adds to the current
\* in_office_days are at most the current remaining_workdays, and at most
\* one for each distinct planned date that qualifies, also when the list
\* names a date more than once.
C27_ProjectionWithinWorkdays ==
    (call.op = "predict_compliance" /\ ret.kind = "ok") =>
        LET planned == call.planned_in_office_dates
            current == calculate_compliance_status(call.period, call.as_of_date).value
            added == ret.value.in_office_days - current.in_office_days
            qualifying == {planned[i] : i \in
                             {k \in 1..Len(planned) :
                                 /\ planned[k] > call.as_of_date
                                 /\ call.period.start_date <= planned[k]
                                 /\ planned[k] <= call.period.end_date
                                 /\ weekday(planned[k]) \in 0..4
                                 /\ planned[k] \notin exclusion_days}}
        IN  /\ added <= current.remaining_workdays
            /\ added <= Cardinality(qualifying)

\* C28: when the store holds no record dated after as_of_date and the
\* planned list names no date twice, the in_office_days,
\* remaining_required_days and is_compliant of
\* predict_compliance(period, planned, as_of_date) are those of
\* calculate_compliance_status(period, period.end_date) after an in-office
\* record was saved for every planned date the projection counted.
C28_ProjectionAgreesWithReality ==
    (call.op = "calculate_compliance_status" /\ "plan" \in DOMAIN call) =>
        LET planned == call.plan.planned_in_office_dates
            noLaterRecord == \A e \in call.plan.before : e[1] <= call.plan.as_of_date
            noRepeat == \A i \in 1..Len(planned) : \A j \in 1..Len(planned) :
                           i # j => planned[i] # planned[j]
        IN  (noLaterRecord /\ noRepeat) =>
               /\ ret.kind = "ok"
               /\ ret.value.in_office_days = call.plan.prediction.in_office_days
               /\ ret.value.remaining_required_days
                     = call.plan.prediction.remaining_required_days
               /\ ret.value.is_compliant = call.plan.prediction.is_compliant

\* C28 witness: a plan of a Sunday, a Friday and New Year's Day, made on a
\* day with an in-office record, was followed (two dates counted and
\* saved) and the status as of the period end shows three in-office days.
C28_Witness ==
    /\ call.op = "calculate_compliance_status"
    /\ "plan" \in DOMAIN call
    /\ call.plan.planned_in_office_dates = <<6, 4, 10>>
    /\ call.plan.before = {<<3, "in-office">>}
    /\ call.plan.as_of_date = 3
    /\ Cardinality(Stored) = 3
    /\ ret.kind = "ok"
    /\ ret.value.in_office_days = 3

\* C29 (as claimed): once the status as of d is "impossible", the status
\* as of any later date is not compliant, whatever in-office records are
\* saved in between for workdays after d.
C29_ImpossibleIsFinal ==
    (call.op = "calculate_compliance_status" /\ "verdict" \in DOMAIN call) =>
        /\ ret.kind = "ok"
        /\ ~ret.value.is_compliant

\* C30: for a fixed period and store, when as_of_date advances by a day
\* in_office_days does not decrease, remaining_required_days does not
\* increase, and remaining_workdays drops by exactly 1 if the new
\* as_of_date is a workday no later than period.end_date and is unchanged
\* otherwise; a status that is compliant is compliant as of every later
\* date.
C30_MonotoneInAsOfDate ==
    (call.op = "calculate_compliance_status" /\ ret.kind = "ok") =>
        LET period == call.period
            s == ret.value
        IN  /\ call.as_of_date < MaxDay =>
                 LET next == call.as_of_date + 1
                     n == calculate_compliance_status(period, next).value
                     workday == /\ weekday(next) \in 0..4
                                /\ next \notin exclusion_days
                 IN  /\ n.in_office_days >= s.in_office_days
                     /\ n.remaining_required_days <= s.remaining_required_days
                     /\ n.remaining_workdays <= s.remaining_workdays
                     /\ n.remaining_workdays =
                           IF workday /\ next <= period.end_date
                           THEN s.remaining_workdays - 1
                           ELSE s.remaining_workdays
            /\ s.is_compliant =>
                 \A later \in Dates :
                    later > call.as_of_date =>
                       calculate_compliance_status(period, later).value.is_compliant

\* C30 witness: as of a Friday inside the period the status is compliant
\* with workdays left; the next day is a Saturday, the one after the period
\* start a workday.
C30_Witness ==
    /\ call.op = "calculate_compliance_status"
    /\ ret.kind = "ok"
    /\ call.as_of_date = 4
    /\ call.period.start_date < 4
    /\ ret.value.is_compliant
    /\ ret.value.in_office_days >= 1
    /\ ret.value.remaining_workdays > 0
    /\ calculate_compliance_status(call.period, 3).value.remaining_workdays
          = ret.value.remaining_workdays + 1

====
